---- MODULE Spec2Model ----
(***************************************************************************)
(* Model of the conduit repository fragment:                               *)
(*   - web/app/js/components/GrafanaLink.jsx : GrafanaLink.render          *)
(*   - the smoke-test manifest (two Deployments, two Services)             *)
(* JavaScript strings are sequences of one-character strings, so that      *)
(* String.prototype.split and template-literal concatenation are computed  *)
(* character by character.                                                 *)
(***************************************************************************)
EXTENDS Integers, Sequences, FiniteSets

VARIABLES calls, renderCount, applied

vars == <<calls, renderCount, applied>>

(* ------------------------------ bounds -------------------------------- *)

MaxLen == 1

MaxRenders == 2

(* --------------------------- JavaScript values ------------------------ *)

\* the JavaScript value `undefined` (no character sequence equals it)
Undefined == <<"undefined-value">>

\* the "/" literal of GrafanaLink.jsx line 5
Separator == "/"

\* template literal pieces of GrafanaLink.jsx line 10
PathPrefix == <<"/","d","a","s","h","b","o","a","r","d","/","d","b","/","c","o","n","d","u","i","t","-">>

NamespaceParam == <<"?","v","a","r","-","n","a","m","e","s","p","a","c","e","=">>

VarParam == <<"&","v","a","r","-">>

Equals == <<"=">>

\* the two non-breaking spaces of GrafanaLink.jsx line 13
Nbsp2 == <<"nbsp","nbsp">>

\* className of the glyph, GrafanaLink.jsx line 13
IconClass == <<"f","a"," ","f","a","-","e","x","t","e","r","n","a","l","-","l","i","n","k">>

\* String(v) as a template literal applies it to an interpolated value
ToString_empty(v) == IF v = Undefined THEN <<>> ELSE v

ToString(v) == IF v = Undefined THEN <<"u","n","d","e","f","i","n","e","d">> ELSE v

\* index of the first occurrence of character c in s, 0 when absent
IndexOf(s, c) ==
  IF \E i \in 1..Len(s) : s[i] = c
  THEN CHOOSE i \in 1..Len(s) : s[i] = c /\ \A j \in 1..(i-1) : s[j] # c
  ELSE 0

\* String.prototype.split with a one-character separator
RECURSIVE split(_, _)
split(s, sep) ==
  LET i == IndexOf(s, sep)
  IN  IF i = 0 THEN <<s>>
      ELSE <<SubSeq(s, 1, i-1)>> \o split(SubSeq(s, i+1, Len(s)), sep)

\* arr[i] of a JavaScript array (0-based): undefined past the end
Index(arr, i) == IF (i + 1) \in DOMAIN arr THEN arr[i + 1] ELSE Undefined

(* ------------------------------ inputs -------------------------------- *)

Alphabet == {"a", Separator}

StringsUpTo(n) == UNION {[1..k -> Alphabet] : k \in 0..n}

DefaultApi == <<"d","e","f","a","u","l","t","/","a","p","i">>

ThreeParts == <<"a","/","b","/","c">>

AmpInNamespace == <<"a","&","v","a","r","-","p","o","d","=","b","/","c">>

AmpInName == <<"a","/","b","&","v","a","r","-","p","o","d","=","c">>

ResDeployment == <<"d","e","p","l","o","y","m","e","n","t">>

ResPod == <<"p","o","d">>

Resources == {ResDeployment, ResPod}

LinkCapabilities == {"ConduitLink", "OtherLink"}

\* this.props of a GrafanaLink: every short identifier with every resource
\* type, and the longer identifiers
Props ==
  [name : StringsUpTo(MaxLen), resource : Resources, conduitLink : {"ConduitLink"}]
    \cup {[name |-> DefaultApi, resource |-> ResDeployment, conduitLink |-> "ConduitLink"],
          [name |-> ThreeParts, resource |-> ResDeployment, conduitLink |-> "OtherLink"],
          [name |-> AmpInNamespace, resource |-> ResPod, conduitLink |-> "ConduitLink"],
          [name |-> AmpInName, resource |-> ResPod, conduitLink |-> "OtherLink"]}

\* the props on which the result of render is compared across steps
ProbeProps ==
  {[name |-> DefaultApi, resource |-> ResDeployment, conduitLink |-> "ConduitLink"],
   [name |-> <<"a">>, resource |-> ResPod, conduitLink |-> "ConduitLink"]}

(* --------------------------- GrafanaLink.render ----------------------- *)

\* the template literal of the `to` attribute
TemplateTo_swapped(resource, namespace, name) ==
  PathPrefix \o ToString(resource) \o NamespaceParam \o ToString(name)
    \o VarParam \o ToString(resource) \o Equals \o ToString(namespace)

RECURSIVE Escape(_)
Escape(s) ==
  IF s = <<>> THEN <<>>
  ELSE (IF Head(s) \in {"&", "=", "?"} THEN <<"%", Head(s)>> ELSE <<Head(s)>>)
         \o Escape(Tail(s))

TemplateTo_escaped(resource, namespace, name) ==
  PathPrefix \o ToString(resource) \o NamespaceParam \o Escape(ToString(namespace))
    \o VarParam \o ToString(resource) \o Equals \o Escape(ToString(name))

\* a path memoised at module level on the first render
TemplateTo_memo(resource, namespace, name) ==
  IF calls = <<>>
  THEN PathPrefix \o ToString(resource) \o NamespaceParam \o ToString(namespace)
         \o VarParam \o ToString(resource) \o Equals \o ToString(name)
  ELSE calls[1].element.to

TemplateTo(resource, namespace, name) ==
  PathPrefix \o ToString(resource) \o NamespaceParam \o ToString(namespace)
    \o VarParam \o ToString(resource) \o Equals \o ToString(name)

TextNode(s) == [tag |-> "#text", text |-> s]

IconNode == [tag |-> "i", text |-> IconClass]

\* the children of the link element, GrafanaLink.jsx line 13
Children_namespace(p) ==
  <<TextNode(Index(split(p.name, Separator), 0)), TextNode(Nbsp2), IconNode>>

Children(p) == <<TextNode(p.name), TextNode(Nbsp2), IconNode>>

\* the `deployment` attribute, GrafanaLink.jsx line 11
DeploymentLabel_resource(p) == p.resource

DeploymentLabel(p) == <<"g","r","a","f","a","n","a">>

\* the `targetBlank` attribute, GrafanaLink.jsx line 12
TargetBlank_guarded(p) == IndexOf(p.name, Separator) # 0

TargetBlank(p) == TRUE

\* one call of render(): its locals, the element it returns, and this.props
\* as the call leaves it
render(p) ==
  LET ownerInfo == split(p.name, Separator)
      namespace == Index(ownerInfo, 0)
      name      == Index(ownerInfo, 1)
  IN  [props      |-> p,
       ownerInfo  |-> ownerInfo,
       namespace  |-> namespace,
       name       |-> name,
       element    |-> [type        |-> p.conduitLink,
                       to          |-> TemplateTo(p.resource, namespace, name),
                       deployment  |-> DeploymentLabel(p),
                       targetBlank |-> TargetBlank(p),
                       children    |-> Children(p)],
       propsAfter |-> p]

(* ------------------------- the smoke-test manifest -------------------- *)

\* document 1: Deployment smoke-test-terminus
TerminusDeployment ==
  [kind           |-> "Deployment",
   name           |-> <<"s","m","o","k","e","-","t","e","s","t","-","t","e","r","m","i","n","u","s">>,
   replicas       |-> 1,
   matchLabels    |-> [app |-> "smoke-test-terminus"],
   labels         |-> [app |-> "smoke-test-terminus"],
   args           |-> <<<<"t","e","r","m","i","n","u","s">>,
                        <<"-","-","g","r","p","c","-","s","e","r","v","e","r","-","p","o","r","t">>,
                        <<"9","0","9","0">>,
                        <<"-","-","r","e","s","p","o","n","s","e","-","t","e","x","t">>,
                        <<"B","A","N","A","N","A">>>>,
   containerPorts |-> <<9090>>]

\* document 2: Service smoke-test-terminus-svc (no `type` key)
TerminusSvc_wrongTarget ==
  [kind     |-> "Service",
   name     |-> <<"s","m","o","k","e","-","t","e","s","t","-","t","e","r","m","i","n","u","s","-","s","v","c">>,
   selector |-> [app |-> "smoke-test-terminus"],
   ports    |-> <<[name |-> "grpc", port |-> 9090, targetPort |-> 9091]>>]

TerminusSvc ==
  [kind     |-> "Service",
   name     |-> <<"s","m","o","k","e","-","t","e","s","t","-","t","e","r","m","i","n","u","s","-","s","v","c">>,
   selector |-> [app |-> "smoke-test-terminus"],
   ports    |-> <<[name |-> "grpc", port |-> 9090, targetPort |-> 9090]>>]

\* document 3: Deployment smoke-test-gateway
GatewayDeployment ==
  [kind           |-> "Deployment",
   name           |-> <<"s","m","o","k","e","-","t","e","s","t","-","g","a","t","e","w","a","y">>,
   replicas       |-> 1,
   matchLabels    |-> [app |-> "smoke-test-gateway"],
   labels         |-> [app |-> "smoke-test-gateway"],
   args           |-> <<<<"p","o","i","n","t","-","t","o","-","p","o","i","n","t","-","c","h","a","n","n","e","l">>,
                        <<"-","-","g","r","p","c","-","d","o","w","n","s","t","r","e","a","m","-","s","e","r","v","e","r">>,
                        <<"s","m","o","k","e","-","t","e","s","t","-","t","e","r","m","i","n","u","s","-","s","v","c",":","9","0","9","0">>,
                        <<"-","-","h","1","-","s","e","r","v","e","r","-","p","o","r","t">>,
                        <<"8","0","8","0">>>>,
   containerPorts |-> <<8080>>]

\* document 4: Service smoke-test-gateway-svc
GatewaySvc_wrongSelector ==
  [kind     |-> "Service",
   name     |-> <<"s","m","o","k","e","-","t","e","s","t","-","g","a","t","e","w","a","y","-","s","v","c">>,
   selector |-> [app |-> "smoke-test-terminus"],
   type     |-> "LoadBalancer",
   ports    |-> <<[name |-> "http", port |-> 8080, targetPort |-> 8080]>>]

GatewaySvc ==
  [kind     |-> "Service",
   name     |-> <<"s","m","o","k","e","-","t","e","s","t","-","g","a","t","e","w","a","y","-","s","v","c">>,
   selector |-> [app |-> "smoke-test-gateway"],
   type     |-> "LoadBalancer",
   ports    |-> <<[name |-> "http", port |-> 8080, targetPort |-> 8080]>>]

\* the documents of the manifest, in file order
Manifest == <<TerminusDeployment, TerminusSvc, GatewayDeployment, GatewaySvc>>

\* the documents the orchestrator holds after `n` of them were applied
Deployments(n) == {i \in 1..n : Manifest[i].kind = "Deployment"}

Services(n) == {i \in 1..n : Manifest[i].kind = "Service"}

\* label selection: every key of the selector is a label with the same value
Matches(selector, labels) ==
  \A k \in DOMAIN selector : k \in DOMAIN labels /\ labels[k] = selector[k]

\* the workloads a Service routes to
SelectedBy(s, n) == {d \in Deployments(n) : Matches(Manifest[s].selector, Manifest[d].labels)}

IsLoadBalancer(s) == "type" \in DOMAIN Manifest[s] /\ Manifest[s].type = "LoadBalancer"

\* the value that follows a command-line flag, undefined when absent
ArgValue(args, flag) ==
  IF \E i \in 1..(Len(args) - 1) : args[i] = flag
  THEN args[(CHOOSE i \in 1..(Len(args) - 1) : args[i] = flag) + 1]
  ELSE Undefined

Digit(c) ==
  CASE c = "0" -> 0 [] c = "1" -> 1 [] c = "2" -> 2 [] c = "3" -> 3 [] c = "4" -> 4
    [] c = "5" -> 5 [] c = "6" -> 6 [] c = "7" -> 7 [] c = "8" -> 8 [] c = "9" -> 9

\* a decimal port argument as a number
RECURSIVE ParseInt(_)
ParseInt(s) ==
  IF s = <<>> THEN 0 ELSE 10 * ParseInt(SubSeq(s, 1, Len(s) - 1)) + Digit(s[Len(s)])

\* "host:port" of --grpc-downstream-server
HostPort(addr) ==
  LET parts == split(addr, ":")
  IN  [host |-> Index(parts, 0), port |-> ParseInt(Index(parts, 1))]

FlagDownstream == <<"-","-","g","r","p","c","-","d","o","w","n","s","t","r","e","a","m","-","s","e","r","v","e","r">>

FlagGrpcPort == <<"-","-","g","r","p","c","-","s","e","r","v","e","r","-","p","o","r","t">>

(* ------------------------------ actions ------------------------------- *)

Init ==
  /\ calls = <<>>
  /\ renderCount = 0
  /\ applied = 0

\* React calls render() of a GrafanaLink mounted with props p; the returned
\* element is one invocation of the conduitLink capability
Render(p) ==
  /\ renderCount < MaxRenders
  /\ calls' = Append(calls, render(p))
  /\ renderCount' = renderCount + 1
  /\ UNCHANGED applied

\* the orchestrator applies the next document of the manifest
Apply ==
  /\ applied < Len(Manifest)
  /\ applied' = applied + 1
  /\ UNCHANGED <<calls, renderCount>>

Next ==
  \/ \E p \in Props : Render(p)
  \/ Apply

Spec == Init /\ [][Next]_vars

(* ------------------------------ properties ---------------------------- *)

\* the number of separators in an identifier
SeparatorCount(id) == Cardinality({i \in 1..Len(id) : id[i] = Separator})

Contains(str, sub) ==
  \E i \in 0..(Len(str) - Len(sub)) : SubSeq(str, i + 1, i + Len(sub)) = sub

\* the path the specification gives for resource r, namespace ns and name nm
ExpectedPath(r, ns, nm) ==
  PathPrefix \o r \o NamespaceParam \o ns \o VarParam \o r \o Equals \o nm

DefaultApiPath == <<"/","d","a","s","h","b","o","a","r","d","/","d","b","/","c","o","n","d","u","i","t","-","d","e","p","l","o","y","m","e","n","t","?","v","a","r","-","n","a","m","e","s","p","a","c","e","=","d","e","f","a","u","l","t","&","v","a","r","-","d","e","p","l","o","y","m","e","n","t","=","a","p","i">>

\* C1: for an identifier "ns/name" with exactly one separator the path passed
\* to the link capability is /dashboard/db/conduit-<r>?var-namespace=<ns>&var-<r>=<name>;
\* it contains var-namespace=<ns> and var-<r>=<name>; and for "deployment" and
\* "default/api" it is the literal path of the specification.
C1_PathOfWellFormed ==
  \A k \in 1..Len(calls) :
    LET c  == calls[k]
        id == c.props.name
        r  == c.props.resource
    IN  /\ \A i \in 1..Len(id) :
             (id[i] = Separator /\ SeparatorCount(id) = 1) =>
               LET ns == SubSeq(id, 1, i - 1)
                   nm == SubSeq(id, i + 1, Len(id))
               IN  /\ c.element.to = ExpectedPath(r, ns, nm)
                   /\ Contains(c.element.to, <<"v","a","r","-","n","a","m","e","s","p","a","c","e","=">> \o ns)
                   /\ Contains(c.element.to, <<"v","a","r","-">> \o r \o <<"=">> \o nm)
        /\ (id = DefaultApi /\ r = ResDeployment) => c.element.to = DefaultApiPath

C1_Witness ==
  \E k \in 1..Len(calls) :
    /\ calls[k].props.name = DefaultApi
    /\ calls[k].props.resource = ResDeployment
    /\ calls[k].element.to = DefaultApiPath

\* C2: for every identifier with at least one separator (also more than one)
\* the split yields exactly two parts, and these are the namespace and the
\* name embedded in the path.
C2_ExactlyTwoParts ==
  \A k \in 1..Len(calls) :
    LET c == calls[k]
    IN  SeparatorCount(c.props.name) >= 1 =>
          /\ Len(c.ownerInfo) = 2
          /\ c.namespace = c.ownerInfo[1]
          /\ c.name = c.ownerInfo[2]
          /\ c.element.to = ExpectedPath(c.props.resource, c.ownerInfo[1], c.ownerInfo[2])

\* C3: every rendered link carries targetBlank = true, whatever the input.
C3_TargetBlank ==
  \A k \in 1..Len(calls) : calls[k].element.targetBlank = TRUE

C3_Witness ==
  /\ \E k \in 1..Len(calls) :
       SeparatorCount(calls[k].props.name) = 0 /\ calls[k].element.targetBlank
  /\ \E k \in 1..Len(calls) :
       SeparatorCount(calls[k].props.name) > 1 /\ calls[k].element.targetBlank

\* C4: the displayed text is the original, unsplit identifier, followed only
\* by the two non-breaking spaces and the external-link glyph.
C4_DisplayedText ==
  \A k \in 1..Len(calls) :
    LET ch == calls[k].element.children
    IN  /\ Len(ch) = 3
        /\ ch[1] = [tag |-> "#text", text |-> calls[k].props.name]
        /\ ch[2] = [tag |-> "#text", text |-> <<"nbsp","nbsp">>]
        /\ ch[3].tag = "i"

C4_Witness ==
  \E k \in 1..Len(calls) :
    /\ SeparatorCount(calls[k].props.name) = 2
    /\ calls[k].element.children[1].text = calls[k].props.name
    /\ calls[k].element.children[1].text # calls[k].namespace

UndefinedText == <<"u","n","d","e","f","i","n","e","d">>

\* C5 as stated: for an identifier without separator the render delegates to
\* the link capability and both the namespace and the name are undefined.
C5_UndefinedPair ==
  \A k \in 1..Len(calls) :
    SeparatorCount(calls[k].props.name) = 0 =>
      /\ Len(calls) = renderCount
      /\ calls[k].namespace = Undefined
      /\ calls[k].name = Undefined

\* C5 amended: for an identifier without separator the render raises nothing
\* and delegates to the link capability; the namespace is the whole
\* identifier, the name is undefined and appears in the path as the text
\* "undefined".
C5_WholeIdAndUndefinedName ==
  \A k \in 1..Len(calls) :
    LET c == calls[k]
    IN  SeparatorCount(c.props.name) = 0 =>
          /\ Len(calls) = renderCount
          /\ c.element.type = c.props.conduitLink
          /\ c.namespace = c.props.name
          /\ c.name = Undefined
          /\ c.element.to =
               ExpectedPath(c.props.resource, c.props.name, UndefinedText)

C5_Witness ==
  \E k \in 1..Len(calls) :
    /\ calls[k].props.name = <<"a">>
    /\ calls[k].name = Undefined
    /\ Contains(calls[k].element.to, <<"=">> \o UndefinedText)

\* C6: each render delegates to the caller-supplied capability exactly once
\* and always with the target label deployment = "grafana".
C6_DelegatesOnceWithLabel ==
  /\ Len(calls) = renderCount
  /\ \A k \in 1..Len(calls) :
       /\ calls[k].element.type = calls[k].props.conduitLink
       /\ calls[k].element.deployment = <<"g","r","a","f","a","n","a">>

C6_Witness ==
  /\ renderCount = 2
  /\ calls[1].props.resource # calls[2].props.resource
  /\ calls[1].props.conduitLink # calls[2].props.conduitLink
  /\ calls[1].element.deployment = calls[2].element.deployment

\* C7: render leaves its props unchanged, and renders with equal props yield
\* equal outputs whatever was rendered before.
C7_SameLog ==
  /\ \A k \in 1..Len(calls) : calls[k].propsAfter = calls[k].props
  /\ \A j, k \in 1..Len(calls) :
       calls[j].props = calls[k].props => calls[j] = calls[k]

C10_Verbatim ==
  \A k \in 1..Len(calls) :
    LET c   == calls[k]
        r   == c.props.resource
        ns  == c.namespace
        nm  == c.name
        to  == c.element.to
        o1  == Len(PathPrefix)
        o2  == o1 + Len(r) + Len(NamespaceParam)
        o3  == o2 + Len(ns) + Len(VarParam)
        o4  == o3 + Len(r) + 1
    IN  nm # Undefined =>
          /\ Len(to) = o4 + Len(nm)
          /\ SubSeq(to, o1 + 1, o1 + Len(r)) = r
          /\ SubSeq(to, o2 + 1, o2 + Len(ns)) = ns
          /\ SubSeq(to, o3 + 1, o3 + Len(r)) = r
          /\ SubSeq(to, o4 + 1, o4 + Len(nm)) = nm

\* two renders of different (resource, namespace, name) with the same path
C10_Witness ==
  \E j, k \in 1..Len(calls) :
    /\ <<calls[j].props.resource, calls[j].namespace, calls[j].name>>
         # <<calls[k].props.resource, calls[k].namespace, calls[k].name>>
    /\ Contains(calls[j].namespace, <<"&">>)
    /\ calls[j].element.to = calls[k].element.to

TerminusName == <<"s","m","o","k","e","-","t","e","s","t","-","t","e","r","m","i","n","u","s">>

GatewayName == <<"s","m","o","k","e","-","t","e","s","t","-","g","a","t","e","w","a","y">>

\* the index of the applied workload with the given name, 0 when absent
WorkloadNamed(nm) ==
  IF \E d \in Deployments(applied) : Manifest[d].name = nm
  THEN CHOOSE d \in Deployments(applied) : Manifest[d].name = nm
  ELSE 0

\* C8: once the manifest is applied, the gateway's --grpc-downstream-server
\* names exactly one Service and one of its ports; that Service selects the
\* terminus Deployment only; and the targetPort of that port is the terminus
\* containerPort and the port given to --grpc-server-port.
C8_Wiring ==
  applied = Len(Manifest) =>
    LET gw   == WorkloadNamed(GatewayName)
        term == WorkloadNamed(TerminusName)
    IN  /\ gw # 0 /\ term # 0
        /\ LET addr == ArgValue(Manifest[gw].args, FlagDownstream)
           IN  /\ addr # Undefined
               /\ Len(split(addr, ":")) = 2
               /\ LET hp   == HostPort(addr)
                      svcs == {s \in Services(applied) : Manifest[s].name = hp.host}
                  IN  /\ Cardinality(svcs) = 1
                      /\ \A s \in svcs :
                           /\ SelectedBy(s, applied) = {term}
                           /\ \E i \in 1..Len(Manifest[s].ports) :
                                LET pt == Manifest[s].ports[i]
                                IN  /\ pt.port = hp.port
                                    /\ Manifest[term].containerPorts = <<pt.targetPort>>
                                    /\ ArgValue(Manifest[term].args, FlagGrpcPort) # Undefined
                                    /\ pt.targetPort =
                                         ParseInt(ArgValue(Manifest[term].args, FlagGrpcPort))

C8_Witness ==
  /\ applied = Len(Manifest)
  /\ HostPort(ArgValue(Manifest[WorkloadNamed(GatewayName)].args, FlagDownstream)).port = 9090
  /\ \E s \in Services(applied) :
       /\ Manifest[s].name = HostPort(ArgValue(Manifest[WorkloadNamed(GatewayName)].args, FlagDownstream)).host
       /\ SelectedBy(s, applied) = {WorkloadNamed(TerminusName)}

\* C9: the applied manifest holds exactly two workloads and two Services; the
\* Service of the responder has no LoadBalancer type, the Service of the
\* forwarder is of type LoadBalancer, and each Service selects exactly one
\* workload, whose container port is the Service's targetPort.
C9_Exposure ==
  applied = Len(Manifest) =>
    /\ Cardinality(Deployments(applied)) = 2
    /\ Cardinality(Services(applied)) = 2
    /\ \A s \in Services(applied) :
         /\ Cardinality(SelectedBy(s, applied)) = 1
         /\ \A d \in SelectedBy(s, applied) :
              /\ \A i \in 1..Len(Manifest[s].ports) :
                   \E j \in 1..Len(Manifest[d].containerPorts) :
                     Manifest[d].containerPorts[j] = Manifest[s].ports[i].targetPort
              /\ Manifest[d].name = TerminusName => ~IsLoadBalancer(s)
              /\ Manifest[d].name = GatewayName => IsLoadBalancer(s)
    /\ \E s \in Services(applied) : SelectedBy(s, applied) = {WorkloadNamed(TerminusName)}
    /\ \E s \in Services(applied) : SelectedBy(s, applied) = {WorkloadNamed(GatewayName)}

C9_Witness ==
  /\ applied = Len(Manifest)
  /\ \E s, u \in Services(applied) :
       /\ IsLoadBalancer(s) /\ ~IsLoadBalancer(u)
       /\ SelectedBy(s, applied) # SelectedBy(u, applied)

====
